---------------------------- MODULE Spec2Model ----------------------------
(***************************************************************************)
(* Little Lemon API: the role-based authorization of its endpoints and the *)
(* cart -> order -> fulfilment lifecycle, modelled from                    *)
(* LittleLemonAPI/views.py, permissions.py and serializers.py.             *)
(*                                                                         *)
(* Three specifications share the variables:                               *)
(*   SpecAuth  the permission check of every endpoint, applied to callers  *)
(*             whose group memberships change through the roster views;    *)
(*   Spec      the cart and order handlers, one request at a time;         *)
(*   SpecConc  the same handlers as the sequences of database statements   *)
(*             they issue, interleaved between concurrent requests.        *)
(***************************************************************************)
EXTENDS Integers, FiniteSets, Sequences, TLC

VARIABLES
    groups,      \* auth_user_groups: user id -> set of group names
    menu,        \* MenuItem table: menu item id -> price (NoItem: no such row)
    cart,        \* Cart table: set of cart line rows
    orders,      \* Order table: set of order rows
    orderitems,  \* OrderItem table: set of order item rows
    nextCart,    \* next Cart primary key
    nextOrder,   \* next Order primary key
    last,        \* the last completed request and its response
    decision,    \* SpecAuth: the last permission decision taken
    procs        \* SpecConc: the requests in flight, with their local variables

vars == <<groups, menu, cart, orders, orderitems, nextCart, nextOrder, last,
          decision, procs>>

----------------------------------------------------------------------------
(* Bounds of the model.                                                    *)

\* Cart rows ever inserted.
MaxCart == 2
\* Order rows ever inserted.
MaxOrders == 2

----------------------------------------------------------------------------
(* Users, groups and request inputs.                                       *)

\* The registered users (auth_user primary keys).
Users == {1, 2, 3, 4}
\* request.user of a request without credentials (AnonymousUser).
Anon == 0
\* Users with is_staff set; no view of the API changes the flag.
Staff == {1}
\* A NULL delivery_crew foreign key.
NoUser == 0
\* A user id that resolves to no user.
GhostUser == 9
\* No MenuItem row under an id.
NoItem == -1

GroupNames == {"Manager", "Delivery crew"}

\* The (basename, HTTP method) pairs the URL configuration serves.
Views == {"category", "menu-items", "cart", "orders",
          "manager-users", "delivery-crew-users"}
Methods == {"GET", "POST", "PUT", "PATCH", "DELETE"}
Served(view) ==
    IF view \in {"category", "menu-items", "orders"} THEN Methods
    ELSE {"GET", "POST", "DELETE"}

----------------------------------------------------------------------------
(* permissions.py                                                          *)

\* request.user.groups.filter(name=g).exists(); AnonymousUser has no groups.
InGroup(g, user) == user \in Users /\ g \in groups[user]

IsManager(user) == InGroup("Manager", user)

IsDeliveryCrew(user) == InGroup("Delivery crew", user)

\* not request.user.groups.exists()
IsCustomer(user) == user \notin Users \/ groups[user] = {}

IsAuthenticated(user) == user \in Users

IsAdminOrManager(user) == user \in Staff \/ InGroup("Manager", user)

----------------------------------------------------------------------------
(* views.py: the permission classes each view instantiates.                *)

\* CategoryViewSet.permission_classes
CategoryPermission(user) == IsAdminOrManager(user)

\* MenuItemViewSet.get_permissions: no permission class at all on a read.
MenuItemPermission(method, user) ==
    IF method \in {"POST", "PUT", "PATCH", "DELETE"}
    THEN IsAdminOrManager(user)
    ELSE TRUE

\* CartViewSet.permission_classes
CartPermission(user) == IsAuthenticated(user) /\ IsCustomer(user)

\* OrderViewSet.get_permissions with the POST branch letting every caller in.
OrderPermission_OpenPost(method, user) ==
    IF method \in {"PUT", "DELETE"} THEN IsManager(user)
    ELSE IF method = "GET" THEN
        IF IsManager(user) THEN IsAuthenticated(user)
        ELSE IF IsDeliveryCrew(user) THEN IsDeliveryCrew(user)
        ELSE IsCustomer(user)
    ELSE IF method = "PATCH" /\ IsManager(user) THEN IsAuthenticated(user)
    ELSE IF method = "PATCH" /\ IsDeliveryCrew(user) THEN IsDeliveryCrew(user)
    ELSE IsAuthenticated(user)

\* OrderViewSet.get_permissions
OrderPermission(method, user) ==
    IF method \in {"PUT", "DELETE"} THEN IsManager(user)
    ELSE IF method = "GET" THEN
        IF IsManager(user) THEN IsAuthenticated(user)
        ELSE IF IsDeliveryCrew(user) THEN IsDeliveryCrew(user)
        ELSE IsCustomer(user)
    ELSE IF method = "PATCH" /\ IsManager(user) THEN IsAuthenticated(user)
    ELSE IF method = "PATCH" /\ IsDeliveryCrew(user) THEN IsDeliveryCrew(user)
    ELSE IF method = "POST" THEN
        IF IsManager(user) THEN IsAuthenticated(user)
        ELSE IsCustomer(user)
    ELSE IsAuthenticated(user)

\* ManagerGroupView, ManagerGroupDetailView, DeliveryCrewGroupView,
\* DeliveryCrewGroupDetailView: permission_classes
RosterPermission(user) == IsAuthenticated(user) /\ IsAdminOrManager(user)

\* APIView.check_permissions of the view that serves the request.
HasPermission(view, method, user) ==
    CASE view = "category"   -> CategoryPermission(user)
      [] view = "menu-items" -> MenuItemPermission(method, user)
      [] view = "cart"       -> CartPermission(user)
      [] view = "orders"     -> OrderPermission(method, user)
      [] OTHER               -> RosterPermission(user)

\* OrderViewSet.partial_update answers 403 "Permission denied" itself to a
\* caller in neither group, after the permission check let the caller in.
HandlerAdmits(view, method, user) ==
    (view = "orders" /\ method = "PATCH") =>
        (IsManager(user) \/ IsDeliveryCrew(user))

\* Whether the endpoint serves the caller: permission check and handler.
Allows(view, method, user) ==
    HasPermission(view, method, user) /\ HandlerAdmits(view, method, user)

Decide(view, method, user) ==
    [view |-> view, method |-> method, caller |-> user,
     member |-> IF user \in Users THEN groups[user] ELSE {},
     staff |-> user \in Staff,
     permitted |-> HasPermission(view, method, user),
     allowed |-> Allows(view, method, user)]

NoDecision ==
    [view |-> "none", method |-> "none", caller |-> Anon,
     member |-> {}, staff |-> FALSE,
     permitted |-> FALSE, allowed |-> FALSE]

NoRequest == [op |-> "none", caller |-> Anon, code |-> 0, result |-> {}]

----------------------------------------------------------------------------
(* The tables' rows and the requests' inputs.                              *)

MenuIds == {1, 2}
\* The prices a Manager gives a menu item.
Prices == {1, 2}
\* int(request.data.get("quantity", 1)) of a request.
Quantities == {0, 1, 2}
\* Calendar dates: orders are placed on day 1; a PUT may carry either day.
Dates == {1, 2}

RECURSIVE SumPrice(_)
\* sum(item.price for item in rows)
SumPrice(rows) ==
    IF rows = {} THEN 0
    ELSE LET r == CHOOSE x \in rows : TRUE
         IN  r.price + SumPrice(rows \ {r})

\* Cart.objects.filter(user=user)
CartOf(user) == {c \in cart : c.user = user}

\* order.orderitem_set
ItemsOf(pk) == {i \in orderitems : i.order = pk}

\* The columns an Order row gets when create() does not pass them.
OrderDefaults == [delivery_crew |-> NoUser, status |-> FALSE]

Respond(op, caller, code, result) ==
    [op |-> op, caller |-> caller, code |-> code, result |-> result]

----------------------------------------------------------------------------
(* CartViewSet                                                             *)

\* The row CartViewSet.create inserts.
NewCartLine(pk, user, menuitem, quantity) ==
    [id |-> pk, user |-> user, menuitem |-> menuitem, quantity |-> quantity,
     unit_price |-> menu[menuitem], price |-> quantity * menu[menuitem]]

\* CartViewSet.create
AddToCart(caller, menuitem, quantity) ==
    IF ~CartPermission(caller) THEN
        /\ last' = Respond("addToCart", caller, 403, {})
        /\ UNCHANGED <<groups, menu, cart, orders, orderitems, nextCart,
                       nextOrder, decision, procs>>
    ELSE IF menuitem \notin MenuIds \/ menu[menuitem] = NoItem THEN
        /\ last' = Respond("addToCart", caller, 404, {})
        /\ UNCHANGED <<groups, menu, cart, orders, orderitems, nextCart,
                       nextOrder, decision, procs>>
    ELSE
        /\ nextCart <= MaxCart
        /\ cart' = cart \cup {NewCartLine(nextCart, caller, menuitem, quantity)}
        /\ nextCart' = nextCart + 1
        /\ last' = Respond("addToCart", caller, 201, {nextCart})
        /\ UNCHANGED <<groups, menu, orders, orderitems, nextOrder, decision, procs>>

\* CartViewSet.destroy
ClearCart(caller) ==
    IF ~CartPermission(caller) THEN
        /\ last' = Respond("clearCart", caller, 403, {})
        /\ UNCHANGED <<groups, menu, cart, orders, orderitems, nextCart,
                       nextOrder, decision, procs>>
    ELSE
        /\ cart' = cart \ CartOf(caller)
        /\ last' = Respond("clearCart", caller, 200, {})
        /\ UNCHANGED <<groups, menu, orders, orderitems, nextCart, nextOrder,
                       decision, procs>>

----------------------------------------------------------------------------
(* MenuItemViewSet                                                         *)

\* MenuItemViewSet.update / partial_update (ModelViewSet) setting the price.
UpdateMenuItem(caller, pk, price) ==
    IF ~MenuItemPermission("PUT", caller) THEN
        /\ last' = Respond("updateMenuItem", caller, 403, {})
        /\ UNCHANGED <<groups, menu, cart, orders, orderitems, nextCart,
                       nextOrder, decision, procs>>
    ELSE IF pk \notin MenuIds \/ menu[pk] = NoItem THEN
        /\ last' = Respond("updateMenuItem", caller, 404, {})
        /\ UNCHANGED <<groups, menu, cart, orders, orderitems, nextCart,
                       nextOrder, decision, procs>>
    ELSE
        /\ menu' = [menu EXCEPT ![pk] = price]
        /\ last' = Respond("updateMenuItem", caller, 200, {pk})
        /\ UNCHANGED <<groups, cart, orders, orderitems, nextCart, nextOrder,
                       decision, procs>>

----------------------------------------------------------------------------
(* OrderViewSet                                                            *)

\* get_queryset with the Delivery crew test ahead of the Manager test.
get_queryset_CrewFirst(user) ==
    IF IsDeliveryCrew(user) THEN {o \in orders : o.delivery_crew = user}
    ELSE IF IsManager(user) THEN orders
    ELSE {o \in orders : o.user = user}

\* OrderViewSet.get_queryset
get_queryset(user) ==
    IF IsManager(user) THEN orders
    ELSE IF IsDeliveryCrew(user) THEN {o \in orders : o.delivery_crew = user}
    ELSE {o \in orders : o.user = user}

\* OrderViewSet.list (ModelViewSet)
ListOrders(caller) ==
    /\ last' = IF ~OrderPermission("GET", caller)
               THEN Respond("listOrders", caller, 403, {})
               ELSE Respond("listOrders", caller, 200,
                            {o.id : o \in get_queryset(caller)})
    /\ UNCHANGED <<groups, menu, cart, orders, orderitems, nextCart, nextOrder,
                   decision, procs>>

\* Order.objects.create(user=..., total=..., date=...)
NewOrder(pk, user, total, today) ==
    [id |-> pk, user |-> user, delivery_crew |-> OrderDefaults.delivery_crew,
     status |-> OrderDefaults.status, total |-> total, date |-> today]

\* The order item with the unit price in place of the line price.
NewOrderItem_UnitAsPrice(pk, item) ==
    [order |-> pk, line |-> item.id, menuitem |-> item.menuitem,
     quantity |-> item.quantity, unit_price |-> item.unit_price,
     price |-> item.unit_price]

\* OrderItem.objects.create(order=order, menuitem=item.menuitem, ...); line is
\* the primary key of the Cart row copied, which tells the items of an order
\* apart as their own primary keys do.
NewOrderItem(pk, item) ==
    [order |-> pk, line |-> item.id, menuitem |-> item.menuitem,
     quantity |-> item.quantity, unit_price |-> item.unit_price,
     price |-> item.price]

\* OrderViewSet.create
CreateOrder(caller, today) ==
    IF ~OrderPermission("POST", caller) THEN
        /\ last' = Respond("createOrder", caller, 403, {})
        /\ UNCHANGED <<groups, menu, cart, orders, orderitems, nextCart,
                       nextOrder, decision, procs>>
    ELSE IF CartOf(caller) = {} THEN
        /\ last' = Respond("createOrder", caller, 400, {})
        /\ UNCHANGED <<groups, menu, cart, orders, orderitems, nextCart,
                       nextOrder, decision, procs>>
    ELSE
        /\ nextOrder <= MaxOrders
        /\ LET cart_items == CartOf(caller)
               total == SumPrice(cart_items)
           IN  /\ orders' = orders \cup {NewOrder(nextOrder, caller, total, today)}
               /\ orderitems' = orderitems \cup
                                {NewOrderItem(nextOrder, item) : item \in cart_items}
               /\ cart' = cart \ CartOf(caller)
        /\ nextOrder' = nextOrder + 1
        /\ last' = Respond("createOrder", caller, 201, {nextOrder})
        /\ UNCHANGED <<groups, menu, nextCart, decision, procs>>

\* request.data of a PATCH: any subset of the two keys, with their values.
PatchKeys == {"delivery_crew", "status"}
StatusInputs == {0, 1, 2}
CrewInputs == {0, 3, 4, GhostUser}
PatchInputs ==
    {d \in UNION {[D -> StatusInputs \cup CrewInputs] : D \in SUBSET PatchKeys} :
        /\ "status" \in DOMAIN d => d["status"] \in StatusInputs
        /\ "delivery_crew" \in DOMAIN d => d["delivery_crew"] \in CrewInputs}

\* `if request.data.get(key):` -- a missing key gives None; None and 0 are false.
Truthy(data, key) == key \in DOMAIN data /\ data[key] # 0

\* partial_update, the Manager branch: the response code, the order object in
\* memory, and whether order.save() ran.
ManagerPatch(order, data) ==
    IF Truthy(data, "delivery_crew") /\ data["delivery_crew"] \notin Users
    THEN [code |-> 404, order |-> order, saved |-> FALSE]
    ELSE LET assigned == IF Truthy(data, "delivery_crew")
                         THEN [order EXCEPT !.delivery_crew = data["delivery_crew"]]
                         ELSE order
             updated == IF "status" \in DOMAIN data /\ data["status"] \in {0, 1}
                        THEN [assigned EXCEPT !.status = (data["status"] = 1)]
                        ELSE assigned
         IN  [code |-> 200, order |-> updated, saved |-> TRUE]

\* partial_update, the Delivery crew branch.
CrewPatch(order, data) ==
    IF "status" \in DOMAIN data
    THEN [code |-> 200, order |-> [order EXCEPT !.status = (data["status"] # 0)],
          saved |-> TRUE]
    ELSE [code |-> 403, order |-> order, saved |-> FALSE]

\* partial_update after Order.objects.get(pk=pk) found the order.
PatchOrder(user, order, data) ==
    IF IsManager(user) THEN ManagerPatch(order, data)
    ELSE IF IsDeliveryCrew(user) THEN CrewPatch(order, data)
    ELSE [code |-> 403, order |-> order, saved |-> FALSE]

\* order.save(): every column of the row is written from the object in memory.
Save(table, order) == {o \in table : o.id # order.id} \cup {order}

\* OrderViewSet.partial_update
PartialUpdate(caller, pk, data) ==
    IF ~OrderPermission("PATCH", caller) THEN
        /\ last' = Respond("partialUpdate", caller, 403, {})
        /\ UNCHANGED <<groups, menu, cart, orders, orderitems, nextCart,
                       nextOrder, decision, procs>>
    ELSE IF ~\E o \in orders : o.id = pk THEN
        /\ last' = Respond("partialUpdate", caller, 404, {})
        /\ UNCHANGED <<groups, menu, cart, orders, orderitems, nextCart,
                       nextOrder, decision, procs>>
    ELSE
        LET order == CHOOSE o \in orders : o.id = pk
            r == PatchOrder(caller, order, data)
        IN  /\ orders' = IF r.saved THEN Save(orders, r.order) ELSE orders
            /\ last' = Respond("partialUpdate", caller, r.code, {pk})
            /\ UNCHANGED <<groups, menu, cart, orderitems, nextCart,
                           nextOrder, decision, procs>>

\* request.data of a PUT: OrderSerializer's writable fields.
PutInputs ==
    [user : {4, GhostUser}, delivery_crew : {NoUser, 3}, status : BOOLEAN,
     total : {0}, date : Dates]

\* OrderViewSet.update (ModelViewSet) through OrderSerializer
UpdateOrder(caller, pk, data) ==
    IF ~OrderPermission("PUT", caller) THEN
        /\ last' = Respond("updateOrder", caller, 403, {})
        /\ UNCHANGED <<groups, menu, cart, orders, orderitems, nextCart,
                       nextOrder, decision, procs>>
    ELSE IF ~\E o \in get_queryset(caller) : o.id = pk THEN
        /\ last' = Respond("updateOrder", caller, 404, {})
        /\ UNCHANGED <<groups, menu, cart, orders, orderitems, nextCart,
                       nextOrder, decision, procs>>
    ELSE IF data.user \notin Users \/ data.delivery_crew \notin Users \cup {NoUser} THEN
        /\ last' = Respond("updateOrder", caller, 400, {})
        /\ UNCHANGED <<groups, menu, cart, orders, orderitems, nextCart,
                       nextOrder, decision, procs>>
    ELSE
        /\ orders' = Save(orders, [id |-> pk, user |-> data.user,
                                   delivery_crew |-> data.delivery_crew,
                                   status |-> data.status, total |-> data.total,
                                   date |-> data.date])
        /\ last' = Respond("updateOrder", caller, 200, {pk})
        /\ UNCHANGED <<groups, menu, cart, orderitems, nextCart, nextOrder,
                       decision, procs>>

\* The rows deleted with Order pk: its OrderItems (OrderItem.order cascades).
CascadeOf(pk) == ItemsOf(pk)

\* OrderViewSet.destroy (ModelViewSet)
DestroyOrder(caller, pk) ==
    IF ~OrderPermission("DELETE", caller) THEN
        /\ last' = Respond("destroyOrder", caller, 403, {})
        /\ UNCHANGED <<groups, menu, cart, orders, orderitems, nextCart,
                       nextOrder, decision, procs>>
    ELSE IF ~\E o \in get_queryset(caller) : o.id = pk THEN
        /\ last' = Respond("destroyOrder", caller, 404, {})
        /\ UNCHANGED <<groups, menu, cart, orders, orderitems, nextCart,
                       nextOrder, decision, procs>>
    ELSE
        /\ orders' = {o \in orders : o.id # pk}
        /\ orderitems' = orderitems \ CascadeOf(pk)
        /\ last' = Respond("destroyOrder", caller, 204, {pk})
        /\ UNCHANGED <<groups, menu, cart, nextCart, nextOrder, decision, procs>>

----------------------------------------------------------------------------
(* Spec: the cart and the placing of orders, one request at a time.        *)

\* The roles the roster views have handed out before the shop opens: user 1
\* has only the staff flag, 2 is a Manager, 3 is Delivery crew, 4 a customer.
RoleFixture ==
    [u \in Users |-> CASE u = 2 -> {"Manager"}
                       [] u = 3 -> {"Delivery crew"}
                       [] OTHER -> {}]

InitStore ==
    /\ menu = [m \in MenuIds |-> IF m = 1 THEN 1 ELSE NoItem]
    /\ cart = {}
    /\ orders = {}
    /\ orderitems = {}
    /\ nextCart = 1
    /\ nextOrder = 1
    /\ last = NoRequest

Init ==
    /\ groups = RoleFixture
    /\ decision = NoDecision
    /\ InitStore
    /\ procs = <<>>

Next ==
    \/ \E caller \in Users, menuitem \in MenuIds, quantity \in Quantities :
          AddToCart(caller, menuitem, quantity)
    \/ \E caller \in Users : ClearCart(caller)
    \/ \E caller \in Users, pk \in MenuIds, price \in Prices :
          UpdateMenuItem(caller, pk, price)
    \/ \E caller \in Users : CreateOrder(caller, 1)

Spec == Init /\ [][Next]_vars

----------------------------------------------------------------------------
(* SpecOrders: placed orders and their management, one request at a time.  *)

InitOrders ==
    /\ groups = RoleFixture
    /\ decision = NoDecision
    /\ InitStore
    /\ procs = <<>>

NextOrders ==
    \/ \E caller \in Users : AddToCart(caller, 1, 1)
    \/ \E caller \in Users : CreateOrder(caller, 1)
    \/ \E caller \in Users : ListOrders(caller)
    \/ \E caller \in Users, pk \in 1..MaxOrders, data \in PatchInputs :
          PartialUpdate(caller, pk, data)
    \/ \E caller \in Users, pk \in 1..MaxOrders, data \in PutInputs :
          UpdateOrder(caller, pk, data)
    \/ \E caller \in Users, pk \in 1..MaxOrders : DestroyOrder(caller, pk)

SpecOrders == InitOrders /\ [][NextOrders]_vars

----------------------------------------------------------------------------
(* SpecList: who is shown which orders, as orders are placed, assigned,    *)
(* handed to another owner and deleted.                                    *)

\* As RoleFixture, with the Manager also on the Delivery crew roster.
RoleFixtureBoth ==
    [RoleFixture EXCEPT ![2] = {"Manager", "Delivery crew"}]

\* The PATCH bodies of SpecList: assign the order to user 3 or to user 2.
AssignInputs == {[k \in {"delivery_crew"} |-> u] : u \in {2, 3}}

\* The PUT body of SpecList: hand the order to user 4.
HandOverInputs ==
    {[user |-> 4, delivery_crew |-> NoUser, status |-> FALSE, total |-> 0,
      date |-> 1]}

InitList ==
    /\ groups \in {RoleFixture, RoleFixtureBoth}
    /\ decision = NoDecision
    /\ InitStore
    /\ procs = <<>>

NextList ==
    \/ \E caller \in Users : AddToCart(caller, 1, 1)
    \/ \E caller \in Users : CreateOrder(caller, 1)
    \/ \E caller \in Users : ListOrders(caller)
    \/ \E caller \in Users, pk \in 1..MaxOrders, data \in AssignInputs :
          PartialUpdate(caller, pk, data)
    \/ \E caller \in Users, pk \in 1..MaxOrders, data \in HandOverInputs :
          UpdateOrder(caller, pk, data)
    \/ \E caller \in Users, pk \in 1..MaxOrders : DestroyOrder(caller, pk)

SpecList == InitList /\ [][NextList]_vars

----------------------------------------------------------------------------
(* SpecConc: two workers serve requests at the same time.  Every handler   *)
(* runs in autocommit (the views open no transaction), so OrderViewSet's   *)
(* create and partial_update are the sequences of database statements they *)
(* issue, and the other worker's statements may fall between any two.      *)

Workers == {1, 2}

NoOrder ==
    [id |-> 0, user |-> NoUser, delivery_crew |-> NoUser, status |-> FALSE,
     total |-> 0, date |-> 0]

\* A worker's request and the handler's local variables:
\*   snap     the rows of cart_items once the queryset has been evaluated
\*   todo     the rows of snap the for loop has not reached yet
\*   obj      `order`, the model instance in memory
\*   deleted  the Cart rows cart_items.delete() removed (history)
IdleWorker ==
    [pc |-> "idle", op |-> "none", user |-> Anon, pk |-> 0,
     data |-> [k \in {} |-> 0], snap |-> {}, todo |-> {}, total |-> 0,
     obj |-> NoOrder, deleted |-> {}, code |-> 0]

\* The PATCH bodies of SpecConc.
ConcPatchInputs ==
    {[k \in {"delivery_crew"} |-> 3], [k \in {"status"} |-> 1]}

StoreUnchanged == UNCHANGED <<groups, menu, cart, orders, orderitems, nextCart,
                              nextOrder, last, decision>>

\* A POST /orders arrives: OrderViewSet.get_permissions, then create() starts.
StartCreateOrder(w, caller) ==
    /\ procs[w].pc = "idle"
    /\ procs' = [procs EXCEPT ![w] =
          IF OrderPermission("POST", caller)
          THEN [IdleWorker EXCEPT !.pc = "exists", !.op = "createOrder",
                                  !.user = caller]
          ELSE [IdleWorker EXCEPT !.pc = "done", !.op = "createOrder",
                                  !.user = caller, !.code = 403]]
    /\ StoreUnchanged

\* create(): `if not cart_items.exists()` -- a query of its own.
CreateOrderExists(w) ==
    /\ procs[w].pc = "exists"
    /\ procs' = [procs EXCEPT ![w] =
          IF CartOf(procs[w].user) = {}
          THEN [@ EXCEPT !.pc = "done", !.code = 400]
          ELSE [@ EXCEPT !.pc = "read"]]
    /\ StoreUnchanged

\* create(): `total = sum(item.price for item in cart_items)` evaluates the
\* queryset; the rows fetched here are the ones the for loop walks.
CreateOrderRead(w) ==
    /\ procs[w].pc = "read"
    /\ LET cart_items == CartOf(procs[w].user)
       IN  procs' = [procs EXCEPT ![w] =
              [@ EXCEPT !.pc = "create", !.snap = cart_items,
                        !.todo = cart_items, !.total = SumPrice(cart_items)]]
    /\ StoreUnchanged

\* create(): Order.objects.create(...)
CreateOrderInsert(w) ==
    /\ procs[w].pc = "create"
    /\ nextOrder <= MaxOrders
    /\ LET order == NewOrder(nextOrder, procs[w].user, procs[w].total, 1)
       IN  /\ orders' = orders \cup {order}
           /\ procs' = [procs EXCEPT ![w] =
                 [@ EXCEPT !.pc = IF procs[w].todo = {} THEN "delete" ELSE "items",
                           !.obj = order]]
    /\ nextOrder' = nextOrder + 1
    /\ UNCHANGED <<groups, menu, cart, orderitems, nextCart, last, decision>>

\* create(): one turn of the loop, OrderItem.objects.create(...)
CreateOrderItem(w) ==
    /\ procs[w].pc = "items"
    /\ LET item == CHOOSE c \in procs[w].todo :
                       \A d \in procs[w].todo : c.id <= d.id
           rest == procs[w].todo \ {item}
       IN  /\ orderitems' = orderitems \cup {NewOrderItem(procs[w].obj.id, item)}
           /\ procs' = [procs EXCEPT ![w] =
                 [@ EXCEPT !.todo = rest,
                           !.pc = IF rest = {} THEN "delete" ELSE "items"]]
    /\ UNCHANGED <<groups, menu, cart, orders, nextCart, nextOrder, last, decision>>

\* create(): cart_items.delete() -- a DELETE of the rows that match the
\* filter now, not of the rows fetched before.
CreateOrderDelete(w) ==
    /\ procs[w].pc = "delete"
    /\ cart' = cart \ CartOf(procs[w].user)
    /\ procs' = [procs EXCEPT ![w] =
          [@ EXCEPT !.pc = "done", !.code = 201,
                    !.deleted = CartOf(procs[w].user)]]
    /\ UNCHANGED <<groups, menu, orders, orderitems, nextCart, nextOrder, last,
                   decision>>

\* A PATCH /orders/{pk} arrives: get_permissions, then partial_update() starts.
StartPartialUpdate(w, caller, pk, data) ==
    /\ procs[w].pc = "idle"
    /\ procs' = [procs EXCEPT ![w] =
          IF OrderPermission("PATCH", caller)
          THEN [IdleWorker EXCEPT !.pc = "get", !.op = "partialUpdate",
                                  !.user = caller, !.pk = pk, !.data = data]
          ELSE [IdleWorker EXCEPT !.pc = "done", !.op = "partialUpdate",
                                  !.user = caller, !.pk = pk, !.data = data,
                                  !.code = 403]]
    /\ StoreUnchanged

\* partial_update(): Order.objects.get(pk=pk), then the branch of the caller's
\* role changes the instance in memory.
PartialUpdateGet(w) ==
    /\ procs[w].pc = "get"
    /\ procs' = [procs EXCEPT ![w] =
          IF ~\E o \in orders : o.id = procs[w].pk
          THEN [@ EXCEPT !.pc = "done", !.code = 404]
          ELSE LET order == CHOOSE o \in orders : o.id = procs[w].pk
                   r == PatchOrder(procs[w].user, order, procs[w].data)
               IN  IF r.saved
                   THEN [@ EXCEPT !.pc = "save", !.obj = r.order, !.code = r.code]
                   ELSE [@ EXCEPT !.pc = "done", !.code = r.code]]
    /\ StoreUnchanged

\* partial_update(): order.save()
PartialUpdateSave(w) ==
    /\ procs[w].pc = "save"
    /\ orders' = Save(orders, procs[w].obj)
    /\ procs' = [procs EXCEPT ![w] = [@ EXCEPT !.pc = "done"]]
    /\ UNCHANGED <<groups, menu, cart, orderitems, nextCart, nextOrder, last,
                   decision>>

\* The response leaves; the worker takes the next request.
Return(w) ==
    /\ procs[w].pc = "done"
    /\ procs' = [procs EXCEPT ![w] = IdleWorker]
    /\ StoreUnchanged

\* CartViewSet.create inserts with one statement; a worker runs it in one step.
ConcAddToCart(w, caller) ==
    /\ procs[w].pc = "idle"
    /\ AddToCart(caller, 1, 1)

InitConc ==
    /\ groups = RoleFixture
    /\ decision = NoDecision
    /\ InitStore
    /\ procs = [w \in Workers |-> IdleWorker]

NextConc ==
    \/ \E w \in Workers, caller \in {3, 4} : ConcAddToCart(w, caller)
    \/ \E w \in Workers, caller \in {3, 4} : StartCreateOrder(w, caller)
    \/ \E w \in Workers : CreateOrderExists(w)
    \/ \E w \in Workers : CreateOrderRead(w)
    \/ \E w \in Workers : CreateOrderInsert(w)
    \/ \E w \in Workers : CreateOrderItem(w)
    \/ \E w \in Workers : CreateOrderDelete(w)
    \/ \E w \in Workers, caller \in {2, 3}, pk \in 1..MaxOrders,
          data \in ConcPatchInputs : StartPartialUpdate(w, caller, pk, data)
    \/ \E w \in Workers : PartialUpdateGet(w)
    \/ \E w \in Workers : PartialUpdateSave(w)
    \/ \E w \in Workers : Return(w)

SpecConc == InitConc /\ [][NextConc]_vars

----------------------------------------------------------------------------
(* SpecAuth: the roster views, and the permission check of every other     *)
(* endpoint applied to the callers the roster views produce.               *)

RosterView(g) == IF g = "Manager" THEN "manager-users" ELSE "delivery-crew-users"

\* ManagerGroupView.post / DeliveryCrewGroupView.post
GroupPost(g, caller, user_id) ==
    /\ decision' = Decide(RosterView(g), "POST", caller)
    /\ IF RosterPermission(caller) /\ user_id \in Users
       THEN groups' = [groups EXCEPT ![user_id] = @ \cup {g}]
       ELSE UNCHANGED groups
    /\ UNCHANGED <<menu, cart, orders, orderitems, nextCart, nextOrder, last, procs>>

\* ManagerGroupDetailView.delete / DeliveryCrewGroupDetailView.delete
GroupDelete(g, caller, userId) ==
    /\ decision' = Decide(RosterView(g), "DELETE", caller)
    /\ IF RosterPermission(caller) /\ userId \in Users
       THEN groups' = [groups EXCEPT ![userId] = @ \ {g}]
       ELSE UNCHANGED groups
    /\ UNCHANGED <<menu, cart, orders, orderitems, nextCart, nextOrder, last, procs>>

\* The permission check of any other endpoint, for any caller.
CheckPermissions(view, method, caller) ==
    /\ method \in Served(view)
    /\ ~(view \in {"manager-users", "delivery-crew-users"} /\ method # "GET")
    /\ decision' = Decide(view, method, caller)
    /\ UNCHANGED <<groups, menu, cart, orders, orderitems, nextCart, nextOrder,
                   last, procs>>

InitAuth ==
    /\ groups = [u \in Users |-> {}]
    /\ decision = NoDecision
    /\ InitStore
    /\ procs = <<>>

NextAuth ==
    \/ \E g \in GroupNames, caller \in Users \cup {Anon},
          user_id \in Users \cup {GhostUser} : GroupPost(g, caller, user_id)
    \/ \E g \in GroupNames, caller \in Users \cup {Anon},
          userId \in Users \cup {GhostUser} : GroupDelete(g, caller, userId)
    \/ \E view \in Views, method \in Methods, caller \in Users \cup {Anon} :
          CheckPermissions(view, method, caller)

SpecAuth == InitAuth /\ [][NextAuth]_vars

----------------------------------------------------------------------------
(* The decision table of the specification, section 4.5.                   *)

AuthTable(view, method, column) ==
    CASE view = "category" -> column = "Manager/Admin"
      [] view = "menu-items" -> method = "GET" \/ column = "Manager/Admin"
      [] view = "cart" -> column = "Customer"
      [] view = "orders" ->
            CASE method = "GET" -> TRUE
              [] method = "POST" -> column \in {"Manager/Admin", "Customer"}
              [] method \in {"PUT", "DELETE"} -> column = "Manager/Admin"
              [] OTHER -> column \in {"Manager/Admin", "Delivery Crew"}
      [] OTHER -> column = "Manager/Admin"

\* The column of a caller when the staff flag counts as Manager/Admin.
ColumnWithStaff(d) ==
    IF d.staff \/ "Manager" \in d.member THEN "Manager/Admin"
    ELSE IF "Delivery crew" \in d.member THEN "Delivery Crew"
    ELSE "Customer"

\* The column of a caller resolved from group membership alone.
ColumnByGroup(d) ==
    IF "Manager" \in d.member THEN "Manager/Admin"
    ELSE IF "Delivery crew" \in d.member THEN "Delivery Crew"
    ELSE "Customer"

C4_AnonymousRejectedAtPermissionCheck ==
    (decision.view # "none" /\ decision.caller = Anon) => ~decision.permitted

----------------------------------------------------------------------------
(* Placing an order.                                                       *)

\* C1: createOrder(u) is one atomic step with respect to concurrent
\* addToCart(u) and createOrder(u): a call deletes no cart line that it did
\* not copy into the order it created, no cart line is copied into two
\* orders, and the order's total is the sum of the prices of its own items.
C1_CreateOrderAtomic ==
    /\ \A w \in Workers :
          (procs[w].pc = "done" /\ procs[w].op = "createOrder"
              /\ procs[w].code = 201) =>
             /\ \A c \in procs[w].deleted :
                   \E i \in orderitems :
                       i.order = procs[w].obj.id /\ i.line = c.id
             /\ \E o \in orders :
                   o.id = procs[w].obj.id /\ o.total = SumPrice(ItemsOf(o.id))
    /\ \A i, j \in orderitems : i.line = j.line => i.order = j.order

\* C2: run without interleaving, createOrder(u) on a cart of n >= 1 lines
\* answers 201, creates exactly one Order (owner u, status false, no delivery
\* crew, total = sum of the lines' prices) and exactly n OrderItems, each the
\* copy of one line, and leaves u's cart empty and the other carts alone; on
\* an empty cart it answers 400 and creates no Order and no OrderItem.
C2_CreateOrderFromCart ==
    [][\A u \in Users :
          (last'.op = "createOrder" /\ last'.caller = u /\ last'.code # 403) =>
             LET lines == {c \in cart : c.user = u}
                 made == orders' \ orders
                 copies == orderitems' \ orderitems
             IN  IF lines = {}
                 THEN /\ last'.code = 400
                      /\ orders' = orders
                      /\ orderitems' = orderitems
                      /\ cart' = cart
                 ELSE /\ last'.code = 201
                      /\ orders \subseteq orders'
                      /\ orderitems \subseteq orderitems'
                      /\ Cardinality(made) = 1
                      /\ \A o \in made :
                            /\ o.user = u
                            /\ o.status = FALSE
                            /\ o.delivery_crew = NoUser
                            /\ o.total = SumPrice(lines)
                            /\ \A i \in copies : i.order = o.id
                      /\ Cardinality(copies) = Cardinality(lines)
                      /\ \A c \in lines :
                            \E i \in copies :
                               /\ i.line = c.id
                               /\ i.menuitem = c.menuitem
                               /\ i.quantity = c.quantity
                               /\ i.unit_price = c.unit_price
                               /\ i.price = c.price
                      /\ cart' = {c \in cart : c.user # u}
      ]_vars

\* An order was just placed from two cart lines of different prices.
C2_Witness ==
    /\ last.op = "createOrder"
    /\ last.code = 201
    /\ \E o \in orders :
          /\ o.id \in last.result
          /\ \E i, j \in ItemsOf(o.id) : i.price # j.price
          /\ o.total = SumPrice(ItemsOf(o.id))
          /\ CartOf(o.user) = {}

\* C10: every CartLine has quantity >= 1, the unit price the menu item had
\* when it was added (later price updates do not change it) and line price =
\* quantity x unit price; addToCart with a menu item id that does not exist
\* answers 404 and creates no CartLine.
C10_CartLineInvariant ==
    [][/\ \A c \in cart' :
             /\ c.quantity >= 1
             /\ c.price = c.quantity * c.unit_price
             /\ c \in cart \/ (c.id \notin {d.id : d \in cart}
                               /\ c.unit_price = menu[c.menuitem])
       /\ \A caller \in Users, menuitem \in MenuIds, quantity \in Quantities :
             (AddToCart(caller, menuitem, quantity) /\ CartPermission(caller)
                 /\ menu[menuitem] = NoItem) =>
                (last'.code = 404 /\ cart' = cart)
      ]_vars

----------------------------------------------------------------------------
(* Managing placed orders.                                                 *)

\* C5: every existing Order keeps the owner, date and total it was created
\* with, its total stays the sum of its OrderItems' prices, and no OrderItem
\* is created or modified after its order was created.
C5_OrderImmutable ==
    [][/\ \A o \in orders : \A p \in orders' :
             p.id = o.id => (p.user = o.user /\ p.date = o.date /\ p.total = o.total)
       /\ \A p \in orders' :
             p.total = SumPrice({i \in orderitems' : i.order = p.id})
       /\ \A i \in orderitems' \ orderitems : i.order \notin {o.id : o \in orders}
       /\ \A i \in orderitems : i \in orderitems' \/ i.order \notin {p.id : p \in orders'}
      ]_vars

\* C6: partialUpdateOrder changes only what the caller's role may set.
\*  - Delivery crew, no status field: 403, order unchanged;
\*  - Delivery crew, status supplied: status set, delivery_crew unchanged;
\*  - Manager, status outside {0,1}: success, status unchanged;
\*  - Manager, delivery_crew id that resolves to no user: 404, order unchanged,
\*    also when a valid status came with it;
\*  - Customer: 403, order unchanged.
C6_PartialUpdateByRole ==
    [][\A caller \in Users, pk \in 1..MaxOrders, data \in PatchInputs :
          (PartialUpdate(caller, pk, data) /\ \E o \in orders : o.id = pk) =>
             LET old == CHOOSE o \in orders : o.id = pk
                 new == CHOOSE o \in orders' : o.id = pk
                 crew == IsDeliveryCrew(caller) /\ ~IsManager(caller)
                 resolves == "delivery_crew" \in DOMAIN data =>
                                data["delivery_crew"] \in Users
             IN  /\ (crew /\ "status" \notin DOMAIN data) =>
                        (last'.code = 403 /\ orders' = orders)
                 /\ (crew /\ "status" \in DOMAIN data) =>
                        /\ last'.code = 200
                        /\ new.status = (data["status"] # 0)
                        /\ new.delivery_crew = old.delivery_crew
                 /\ (IsManager(caller) /\ resolves /\ "status" \in DOMAIN data
                        /\ data["status"] \notin {0, 1}) =>
                        (last'.code = 200 /\ new.status = old.status)
                 /\ (IsManager(caller) /\ ~resolves) =>
                        (last'.code = 404 /\ orders' = orders)
                 /\ (~IsManager(caller) /\ ~IsDeliveryCrew(caller)) =>
                        (last'.code = 403 /\ orders' = orders)
      ]_vars

\* C7: a Manager PATCH that sets only delivery_crew and a Delivery crew PATCH
\* that sets only status, served at the same time on the same order, both
\* show in the order once both have been answered.
C7_BothWritesKept ==
    \A m, d \in Workers :
        (/\ procs[m].pc = "done" /\ procs[m].op = "partialUpdate"
         /\ procs[d].pc = "done" /\ procs[d].op = "partialUpdate"
         /\ procs[m].code = 200 /\ procs[d].code = 200
         /\ procs[m].pk = procs[d].pk
         /\ IsManager(procs[m].user)
         /\ DOMAIN procs[m].data = {"delivery_crew"}
         /\ IsDeliveryCrew(procs[d].user) /\ ~IsManager(procs[d].user)
         /\ DOMAIN procs[d].data = {"status"}) =>
            \E o \in orders :
                /\ o.id = procs[m].pk
                /\ o.delivery_crew = procs[m].data["delivery_crew"]
                /\ o.status = (procs[d].data["status"] # 0)

\* C8: listOrders(u) returns all orders if u is in the Manager group, else
\* the orders whose delivery_crew is u if u is in the Delivery crew group,
\* else the orders u owns.
C8_ListOrdersScope ==
    last.op = "listOrders" =>
        /\ last.code = 200
        /\ last.result =
              LET u == last.caller
              IN  IF "Manager" \in groups[u] THEN {o.id : o \in orders}
                  ELSE IF "Delivery crew" \in groups[u]
                       THEN {o.id : o \in {x \in orders : x.delivery_crew = u}}
                       ELSE {o.id : o \in {x \in orders : x.user = u}}

\* A user on both rosters listed the orders and was shown all of them: one
\* assigned to that user, one placed by another user and assigned elsewhere.
C8_Witness ==
    /\ last.op = "listOrders"
    /\ groups[last.caller] = {"Manager", "Delivery crew"}
    /\ last.result = {o.id : o \in orders}
    /\ \E o \in orders : o.delivery_crew = last.caller
    /\ \E o \in orders : o.delivery_crew # last.caller /\ o.user # last.caller

\* C9: an order's status is changed only by a Manager or by the Delivery crew
\* member the order is assigned to.
C9_StatusOnlyByManagerOrAssignedCrew ==
    [][\A o \in orders : \A p \in orders' :
          (p.id = o.id /\ p.status # o.status) =>
             \/ IsManager(last'.caller)
             \/ (IsDeliveryCrew(last'.caller) /\ o.delivery_crew = last'.caller)
      ]_vars

====
